---- MODULE Spec2Model ----
(***************************************************************************)
(* Model of the chat client of ai-app: the provider adapter callAI and the *)
(* history-enabled web Chat component (web/components/Chat.tsx) with its    *)
(* Firestore conversation store.                                           *)
(*                                                                         *)
(* A JavaScript string is a sequence of symbols; " " is the whitespace      *)
(* symbol.  A fixed reply literal of the code ('No response', ...) is a     *)
(* one-symbol string.  A JSON value is a tagged record.                     *)
(***************************************************************************)
EXTENDS Integers, Sequences, FiniteSets, TLC

VARIABLES
    messages,              \* useState<Message[]>: the in-memory transcript
    model,                 \* useState('chatgpt'): the selected provider
    loading,               \* useState(false)
    conversations,         \* useState<Conversation[]>: last history snapshot
    activeConversationId,  \* useState<string | null>
    historyError,          \* useState<string | null>
    store,                 \* Firestore users/{uid}/conversations: id -> document
    turns,                 \* sendMessage invocations suspended at an await
    sends,                 \* number of sends accepted so far
    call                   \* one invocation of callAI on its own

vars == <<messages, model, loading, conversations, activeConversationId,
          historyError, store, turns, sends, call>>

chatVars == <<messages, model, loading, conversations, activeConversationId,
              historyError, store, turns, sends>>

----------------------------------------------------------------------------
(* Bounds *)

MaxStrLen == 2     \* longest provider text, in symbols
MaxLen == 2        \* longest transcript handed to callAI on its own
MaxSends == 2      \* sends accepted in one session

----------------------------------------------------------------------------
(* Strings *)

Alphabet == {"a", " "}

RECURSIVE StringsUpTo(_)
StringsUpTo(n) ==
    IF n = 0 THEN {<<>>}
    ELSE LET S == StringsUpTo(n - 1)
         IN  S \cup {Append(s, c) : s \in {r \in S : Len(r) = n - 1}, c \in Alphabet}

Strings == StringsUpTo(MaxStrLen)

IsSpace(c) == c = " "

RECURSIVE TrimStart(_)
TrimStart(s) ==
    IF s # <<>> /\ IsSpace(Head(s)) THEN TrimStart(Tail(s)) ELSE s

RECURSIVE TrimEnd(_)
TrimEnd(s) ==
    IF s # <<>> /\ IsSpace(s[Len(s)]) THEN TrimEnd(SubSeq(s, 1, Len(s) - 1)) ELSE s

\* trim that leaves trailing whitespace in place
TrimStartOnly(s) == TrimStart(s)

\* String.prototype.trim
Trim(s) == TrimEnd(TrimStart(s))

NoResponse == <<"No response">>
UnknownModel == <<"Unknown model">>
ErrorCallingAI == <<"Error calling AI">>

----------------------------------------------------------------------------
(* JSON values and the JavaScript operations callAI applies to them *)

Undef == [t |-> "undefined"]
Null == [t |-> "null"]
Throw == [t |-> "throw"]          \* the evaluation raised a TypeError
Str(s) == [t |-> "string", v |-> s]
Num(n) == [t |-> "number", v |-> n]
Arr(a) == [t |-> "array", v |-> a]
Obj(f) == [t |-> "object", v |-> f]

\* An object literal from a set of <<key, value>> pairs; a pair whose value is
\* Undef is a key the object does not have.
ObjOf(pairs) ==
    LET P == {p \in pairs : p[2] # Undef}
    IN  Obj([k \in {p[1] : p \in P} |-> (CHOOSE p \in P : p[1] = k)[2]])

IsNullish(x) == x.t \in {"undefined", "null"}

\* ToBoolean
Truthy(x) ==
    CASE x.t \in {"undefined", "null"} -> FALSE
      [] x.t = "string" -> x.v # <<>>
      [] x.t = "number" -> x.v # 0
      [] OTHER -> TRUE

\* x.key on a value that is not null or undefined
Prop(x, key) ==
    IF x.t = "object" /\ key \in DOMAIN x.v THEN x.v[key] ELSE Undef

\* x[0] on a value that is not null or undefined
Elem0(x) ==
    CASE x.t = "array" -> IF Len(x.v) > 0 THEN x.v[1] ELSE Undef
      [] x.t = "string" -> IF Len(x.v) > 0 THEN Str(<<x.v[1]>>) ELSE Undef
      [] OTHER -> Undef

\* x?.key
OptGet(x, key) ==
    IF x = Throw THEN Throw ELSE IF IsNullish(x) THEN Undef ELSE Prop(x, key)

\* x[0] written without the optional chain
Idx0Strict(x) ==
    IF x = Throw \/ IsNullish(x) THEN Throw ELSE Elem0(x)

\* x?.[0]
OptIdx0(x) ==
    IF x = Throw THEN Throw ELSE IF IsNullish(x) THEN Undef ELSE Elem0(x)

\* x.key
Get(x, key) ==
    IF x = Throw \/ IsNullish(x) THEN Throw ELSE Prop(x, key)

\* x.trim()
CallTrim(x) ==
    IF x.t = "string" THEN Str(Trim(x.v)) ELSE Throw

\* x?.trim()
OptTrim(x) ==
    IF x = Throw THEN Throw ELSE IF IsNullish(x) THEN Undef ELSE CallTrim(x)

\* a || b, with b evaluated only when a is falsy
OrElse(a, b) ==
    IF a = Throw THEN Throw ELSE IF Truthy(a) THEN a ELSE b

----------------------------------------------------------------------------
(* callAI *)

Supported == {"chatgpt", "claude", "deepseek"}

\* the first argument of fetch in each case of the switch
Endpoint(m) ==
    CASE m = "chatgpt" -> "https://api.openai.com/v1/chat/completions"
      [] m = "claude" -> "https://api.anthropic.com/v1/messages"
      [] m = "deepseek" -> "https://api.deepseek.com/v1/chat/completions"

\* the model field of the request body
ApiModel(m) ==
    CASE m = "chatgpt" -> "gpt-3.5-turbo"
      [] m = "claude" -> "claude-3-haiku-20240307"
      [] m = "deepseek" -> "deepseek-chat"

\* a map that also trims each content
MapMessagesTrimmed(msgs) ==
    [i \in 1 .. Len(msgs) |-> [role |-> msgs[i].role, content |-> Trim(msgs[i].content)]]

\* messages.map((m) => ({ role: m.role, content: m.content }))
MapMessages(msgs) ==
    [i \in 1 .. Len(msgs) |-> [role |-> msgs[i].role, content |-> msgs[i].content]]

\* the request one case of the switch hands to fetch
Request(m, msgs) ==
    [url |-> Endpoint(m), method |-> "POST", model |-> ApiModel(m),
     messages |-> MapMessages(msgs), max_tokens |-> 1024]

\* a default case that falls through to the chatgpt request
FetchCallsByDefault(m, msgs, outcome) ==
    IF m \in Supported THEN <<Request(m, msgs)>> ELSE <<Request("chatgpt", msgs)>>

\* a second fetch after a rejected one
FetchCallsRetry(m, msgs, outcome) ==
    IF m \notin Supported THEN <<>>
    ELSE IF outcome.k = "reject" THEN <<Request(m, msgs), Request(m, msgs)>>
    ELSE <<Request(m, msgs)>>

\* The fetch calls one invocation makes, in order.  outcome is what the single
\* fetch of a supported case comes to; the code looks at it once and never
\* fetches again.
FetchCalls(m, msgs, outcome) ==
    CASE m = "chatgpt" -> <<Request(m, msgs)>>
      [] m = "claude" -> <<Request(m, msgs)>>
      [] m = "deepseek" -> <<Request(m, msgs)>>
      [] OTHER -> <<>>

\* data?.choices?.[0]?.message?.content
ChoiceMessageContent(data) ==
    OptGet(OptGet(OptIdx0(OptGet(data, "choices")), "message"), "content")

\* data?.choices?.[0]?.text
ChoiceText(data) ==
    OptGet(OptIdx0(OptGet(data, "choices")), "text")

\* case 'chatgpt': the returned expression
ExtractChatGPT(data) ==
    OrElse(OptTrim(ChoiceMessageContent(data)),
           OrElse(OptTrim(ChoiceText(data)), Str(NoResponse)))

\* case 'claude': the statements after res.json()
ExtractClaude(data) ==
    LET content == OptGet(data, "content")
        first == Get(content.v[1], "text")
        fallback == OptGet(OptGet(data, "message"), "content")
    IN  IF content.t = "array" /\ Len(content.v) > 0 /\ first = Throw THEN Throw
        ELSE IF content.t = "array" /\ Len(content.v) > 0 /\ Truthy(first)
        THEN CallTrim(first)
        ELSE IF Truthy(fallback) THEN CallTrim(fallback)
        ELSE Str(NoResponse)

\* the deepseek expression written without the optional chain:
\* data.choices[0].message.content.trim() || 'No response'
ExtractDeepSeekStrict(data) ==
    LET content == Get(Get(Idx0Strict(Get(data, "choices")), "message"), "content")
    IN  OrElse(IF content = Throw \/ IsNullish(content) THEN Throw ELSE CallTrim(content),
               Str(NoResponse))

\* a deepseek branch with the chatgpt branch's second field
ExtractDeepSeekChoiceText(data) == ExtractChatGPT(data)

\* case 'deepseek': the returned expression
ExtractDeepSeek(data) ==
    OrElse(OptTrim(ChoiceMessageContent(data)), Str(NoResponse))

\* What the body of the try block comes to: a string, or Throw when fetch
\* rejects, res.json() rejects or the extraction raises.
TryBody(m, outcome) ==
    CASE m \notin Supported -> Str(UnknownModel)
      [] m \in Supported /\ outcome.k = "reject" -> Throw
      [] m \in Supported /\ outcome.k = "badjson" -> Throw
      [] m = "chatgpt" /\ outcome.k = "json" -> ExtractChatGPT(outcome.data)
      [] m = "claude" /\ outcome.k = "json" -> ExtractClaude(outcome.data)
      [] m = "deepseek" /\ outcome.k = "json" -> ExtractDeepSeek(outcome.data)

\* a catch block that rethrows
CatchRethrows(r) == r

\* catch (err) { console.error(err); return 'Error calling AI'; }
Catch(r) == IF r = Throw THEN Str(ErrorCallingAI) ELSE r

\* What the promise of callAI(m, msgs) settles to: a string value, or Throw
\* when it rejects.
CallAI(m, msgs, outcome) == Catch(TryBody(m, outcome))

----------------------------------------------------------------------------
(* What a provider, or the network, may answer *)

\* a field of a response: absent, null, a number or a string
FieldVals == {Undef, Null, Num(0), Num(7)} \cup {Str(s) : s \in Strings}

\* { choices: [ { message: { content: c }, text: t } ] }
ChatBody(c, t) ==
    ObjOf({<<"choices", Arr(<<ObjOf({<<"message", ObjOf({<<"content", c>>})>>,
                                      <<"text", t>>})>>)>>})

\* { content: [ { type: 'text', text: x } ], message: { content: c } }
ClaudeBody(x, c) ==
    ObjOf({<<"content", Arr(<<ObjOf({<<"type", Str(<<"text">>)>>, <<"text", x>>})>>)>>,
           <<"message", IF c = Undef THEN Undef ELSE ObjOf({<<"content", c>>})>>})

\* { error: { message: ... } }: a provider's rejection of a request
ErrorBody == ObjOf({<<"error", ObjOf({<<"message", Str(<<"a">>)>>})>>})

OddBodies ==
    {Null, Num(7), Str(<<"a">>), Arr(<<>>), ObjOf({}), ErrorBody,
     ObjOf({<<"choices", Null>>}), ObjOf({<<"choices", Arr(<<>>)>>}),
     ObjOf({<<"choices", Arr(<<Null>>)>>}), ObjOf({<<"choices", Str(<<"a">>)>>}),
     ObjOf({<<"choices", Arr(<<ObjOf({<<"message", Null>>})>>)>>}),
     ObjOf({<<"content", Arr(<<>>)>>}), ObjOf({<<"content", Arr(<<Null>>)>>}),
     ObjOf({<<"content", Str(<<"a">>)>>}), ObjOf({<<"content", Null>>}),
     ObjOf({<<"content", Arr(<<Str(<<"a">>)>>)>>}),
     ObjOf({<<"message", Null>>}), ObjOf({<<"message", Str(<<"a">>)>>})}

Bodies ==
    {ChatBody(c, t) : c \in FieldVals, t \in FieldVals}
        \cup {ClaudeBody(x, c) : x \in FieldVals, c \in FieldVals}
        \cup OddBodies

\* fetch rejects; or it resolves and res.json() rejects; or both resolve
Outcomes ==
    {[k |-> "reject"], [k |-> "badjson"]} \cup {[k |-> "json", data |-> d] : d \in Bodies}

NoOutcome == [k |-> "none"]

\* the bodies the providers answer with in a chat session: a reply in the
\* chat-completion shape and a blank reply in the claude shape, each of which is
\* a body without the expected fields to a provider of the other shape
ChatBodies ==
    {ChatBody(Str(<<"a">>), Undef), ClaudeBody(Str(<<" ">>), Undef)}

----------------------------------------------------------------------------
(* One invocation of callAI, on inputs drawn from bounded sets *)

Roles == {"user", "assistant"}
Contents == {<<"a">>, <<" ", "a">>}
Messages == [role : Roles, content : Contents]
Models == Supported \cup {"llama", "ChatGPT"}

RECURSIVE SeqsUpTo(_, _)
SeqsUpTo(S, n) ==
    IF n = 0 THEN {<<>>}
    ELSE LET R == SeqsUpTo(S, n - 1)
         IN  R \cup {Append(r, x) : r \in {q \in R : Len(q) = n - 1}, x \in S}

Transcripts == SeqsUpTo(Messages, MaxLen)

InitCall ==
    \E m \in Models, msgs \in Transcripts :
        call = [pc |-> "invoked", model |-> m, messages |-> msgs,
                outcome |-> NoOutcome, requests |-> <<>>, result |-> Undef]

\* callAI(call.model, call.messages) runs to the settling of its promise
CallAIReturns ==
    /\ call.pc = "invoked"
    /\ \E o \in Outcomes :
        LET reqs == FetchCalls(call.model, call.messages, o)
        IN  /\ (reqs = <<>>) => o = [k |-> "reject"]
            /\ call' = [call EXCEPT !.pc = "returned",
                                    !.outcome = IF reqs = <<>> THEN NoOutcome ELSE o,
                                    !.requests = reqs,
                                    !.result = CallAI(call.model, call.messages, o)]
    /\ UNCHANGED chatVars

----------------------------------------------------------------------------
(* The Chat component and the conversation store *)

NoId == 0                   \* activeConversationId null; documents are 1, 2, ...

\* what the user may type into the text field
Inputs == {<<" ">>, <<" ", "a">>}

\* snapshot.docs.map(...): one Conversation of a document
ToConversation(id, data) ==
    [id |-> id,
     messages |-> IF "messages" \in DOMAIN data THEN data.messages ELSE <<>>,
     model |-> IF "model" \in DOMAIN data /\ data.model # "" THEN data.model
               ELSE "chatgpt",
     saved |-> data.saved]

\* query(conversationsRef, orderBy('createdAt', 'desc')): documents are created
\* in the order of their ids, so the newest comes first
History(st) ==
    [i \in 1 .. Len(st) |-> ToConversation(Len(st) + 1 - i, st[Len(st) + 1 - i])]

\* [...messages, { role: 'user', content: input.trim() }]
NewMessages(msgs, text) == Append(msgs, [role |-> "user", content |-> Trim(text)])

\* an append that leaves the sentinel replies out of the transcript
UpdatedMessagesDropsSentinel(newMessages, reply) ==
    IF reply \in {NoResponse, ErrorCallingAI, UnknownModel} THEN newMessages
    ELSE Append(newMessages, [role |-> "assistant", content |-> reply])

\* [...newMessages, { role: 'assistant', content: reply }]
UpdatedMessages(newMessages, reply) ==
    Append(newMessages, [role |-> "assistant", content |-> reply])

\* the arguments sendMessage hands to callAI
CallArgs(m, newMessages) == [model |-> m, messages |-> newMessages]

\* a write of newMessages, without the reply
WriteDataUnanswered(t, updatedMessages, inMemory) ==
    [messages |-> t.sent, model |-> t.model, saved |-> inMemory]

\* the document data of the write: { messages: updatedMessages, model, ... };
\* saved is the in-memory transcript at the moment the write is issued
WriteData(t, updatedMessages, inMemory) ==
    [messages |-> updatedMessages, model |-> t.model, saved |-> inMemory]

\* if (activeConversationId) setDoc(..., { merge: true }) else addDoc(...)
WriteKind(t) == IF t.activeConversationId # NoId THEN "setDoc" ELSE "addDoc"

\* the store after the write of turn t is applied
ApplyWrite(st, t) ==
    IF t.write = "setDoc"
    THEN [st EXCEPT ![t.activeConversationId] = t.data @@ @]
    ELSE Append(st, t.data)

Init ==
    /\ messages = <<>>
    /\ model = "chatgpt"
    /\ loading = FALSE
    /\ conversations = <<>>
    /\ activeConversationId = NoId
    /\ historyError = FALSE
    /\ store = <<>>
    /\ turns = {}
    /\ sends = 0
    /\ call = [pc |-> "none"]

\* onChange of the select: setModel(e.target.value)
SelectModel ==
    /\ \E m \in Supported : model # m /\ model' = m
    /\ UNCHANGED <<messages, loading, conversations, activeConversationId,
                   historyError, store, turns, sends, call>>

\* sendMessage, from the Send button or from Enter, up to its first await,
\* with text in the input field.  The button is disabled while loading and
\* handleKeyDown tests loading; setInput('') empties the field, which nothing
\* but the next sendMessage reads.
SendMessage ==
    /\ ~loading
    /\ sends < MaxSends
    /\ \E text \in Inputs :
        IF Trim(text) = <<>>
        THEN UNCHANGED <<messages, loading, turns, sends>>
        ELSE LET newMessages == NewMessages(messages, text)
                 args == CallArgs(model, newMessages)
             IN  /\ messages' = newMessages
                 /\ loading' = TRUE
                 /\ sends' = sends + 1
                 /\ turns' = turns \cup
                        {[id |-> sends + 1, pc |-> "callAI", model |-> args.model,
                          sent |-> args.messages,
                          activeConversationId |-> activeConversationId,
                          requests |-> FetchCalls(args.model, args.messages, NoOutcome),
                          write |-> "none", data |-> <<>>]}
    /\ UNCHANGED <<model, conversations, activeConversationId, historyError, store, call>>

\* a continuation that leaves the loading flag set
ResumeKeepsLoading(t, reply) ==
    LET updatedMessages == UpdatedMessages(t.sent, reply.v)
    IN  /\ messages' = updatedMessages
        /\ turns' = (turns \ {t}) \cup
               {[t EXCEPT !.pc = "write", !.write = WriteKind(t),
                          !.data = WriteData(t, updatedMessages, messages')]}
        /\ UNCHANGED <<loading, model, conversations, activeConversationId,
                       historyError, store, sends, call>>

\* sendMessage of turn t from `await callAI(...)`, which settled to reply, to
\* the await of its write; a rejected callAI ends sendMessage there
Resume(t, reply) ==
    LET updatedMessages == UpdatedMessages(t.sent, reply.v)
    IN  /\ IF reply = Throw
           THEN /\ turns' = turns \ {t}
                /\ UNCHANGED <<messages, loading>>
           ELSE /\ messages' = updatedMessages
                /\ loading' = FALSE
                /\ turns' = (turns \ {t}) \cup
                       {[t EXCEPT !.pc = "write", !.write = WriteKind(t),
                                  !.data = WriteData(t, updatedMessages, messages')]}
        /\ UNCHANGED <<model, conversations, activeConversationId,
                       historyError, store, sends, call>>

\* the provider selected now, not the one callAI was invoked with
ProviderSelectedNow(t) == model

\* the model parameter of the pending callAI of turn t, bound when it was invoked
ProviderOf(t) == t.model

\* the fetch of a pending callAI rejects
FetchRejects ==
    \E t \in turns :
        /\ t.pc = "callAI"
        /\ Resume(t, CallAI(ProviderOf(t), t.sent, [k |-> "reject"]))

\* the fetch resolves and res.json() rejects: the body is not JSON
JsonRejects ==
    \E t \in turns :
        /\ t.pc = "callAI"
        /\ Resume(t, CallAI(ProviderOf(t), t.sent, [k |-> "badjson"]))

\* the fetch resolves with a JSON body
ResponseArrives ==
    \E t \in turns :
        /\ t.pc = "callAI"
        /\ \E reply \in {CallAI(ProviderOf(t), t.sent, [k |-> "json", data |-> d]) :
                             d \in ChatBodies} :
               Resume(t, reply)

\* the client sends its writes in the order they were issued
OldestWrite(t) ==
    /\ t.pc = "write"
    /\ \A u \in turns : u.pc = "write" => t.id <= u.id

\* the write resolves: the document is stored; after addDoc,
\* setActiveConversationId(docRef.id)
WriteSucceeds ==
    /\ \E t \in turns :
        /\ OldestWrite(t)
        /\ store' = ApplyWrite(store, t)
        /\ activeConversationId' =
               IF t.write = "addDoc" THEN Len(store') ELSE activeConversationId
        /\ turns' = turns \ {t}
    /\ UNCHANGED <<messages, model, loading, conversations, historyError,
                   sends, call>>

\* a catch block that takes the turn out of the transcript again
WriteFailsRollsBack ==
    /\ \E t \in turns :
        /\ OldestWrite(t)
        /\ turns' = turns \ {t}
        /\ messages' = SubSeq(t.sent, 1, Len(t.sent) - 1)
    /\ UNCHANGED <<model, loading, conversations, activeConversationId, historyError,
                   store, sends, call>>

\* the write rejects: catch (err) { console.error('Error saving conversation', err) }
WriteFails ==
    /\ \E t \in turns :
        /\ OldestWrite(t)
        /\ turns' = turns \ {t}
    /\ UNCHANGED <<messages, model, loading, conversations,
                   activeConversationId, historyError, store, sends, call>>

\* onSnapshot, first callback: setConversations(history); setHistoryError(null)
Snapshot ==
    /\ conversations # History(store)
    /\ conversations' = History(store)
    /\ historyError' = FALSE
    /\ UNCHANGED <<messages, model, loading, activeConversationId, store,
                   turns, sends, call>>

startNewConversation ==
    /\ activeConversationId' = NoId
    /\ messages' = <<>>
    /\ model' = "chatgpt"
    /\ UNCHANGED <<loading, conversations, historyError, store, turns, sends,
                   call>>

\* the three assignments of loadConversation(conversation)
Loaded(conversation) ==
    [id |-> conversation.id, messages |-> conversation.messages,
     model |-> IF conversation.model # "" THEN conversation.model ELSE "chatgpt"]

loadConversation ==
    /\ \E i \in 1 .. Len(conversations) :
        LET l == Loaded(conversations[i])
        IN  /\ activeConversationId' = l.id
            /\ messages' = l.messages
            /\ model' = l.model
    /\ UNCHANGED <<loading, conversations, historyError, store, turns, sends,
                   call>>

Next ==
    \/ SelectModel
    \/ SendMessage
    \/ FetchRejects
    \/ JsonRejects
    \/ ResponseArrives
    \/ WriteSucceeds
    \/ WriteFails
    \/ Snapshot
    \/ startNewConversation
    \/ loadConversation

Spec == Init /\ [][Next]_vars

InitAdapter ==
    /\ messages = <<>>
    /\ model = "chatgpt"
    /\ loading = FALSE
    /\ conversations = <<>>
    /\ activeConversationId = NoId
    /\ historyError = FALSE
    /\ store = <<>>
    /\ turns = {}
    /\ sends = 0
    /\ InitCall

NextAdapter == CallAIReturns

SpecAdapter == InitAdapter /\ [][NextAdapter]_vars

----------------------------------------------------------------------------
(* The adapter's contract, under SpecAdapter *)

Returned == call.pc = "returned"

Blanks(n) == [i \in 1 .. n |-> " "]

\* r is s without its leading and trailing whitespace
IsTrimOf(r, s) ==
    /\ r # <<>>
    /\ r[1] # " "
    /\ r[Len(r)] # " "
    /\ \E i, j \in 0 .. Len(s) : s = Blanks(i) \o r \o Blanks(j)

IsBlank(s) == \A i \in 1 .. Len(s) : s[i] = " "

\* content[0].text of a body, where content is a non-empty array
ClaudeContentText(data) ==
    LET c == OptGet(data, "content")
    IN  IF c.t = "array" /\ Len(c.v) > 0 THEN OptGet(c.v[1], "text") ELSE Undef

\* message.content of a body
MessageContent(data) == OptGet(OptGet(data, "message"), "content")

\* the fields of a body a provider's reply is documented to be taken from
ExpectedFields(m, data) ==
    CASE m = "chatgpt" -> {ChoiceMessageContent(data), ChoiceText(data)}
      [] m = "claude" -> {ClaudeContentText(data), MessageContent(data)}
      [] m = "deepseek" -> {ChoiceMessageContent(data)}

NoExpectedField(m, data) == ExpectedFields(m, data) = {Undef}

\* no expected field holds text
NoReplyText(m, data) ==
    \A f \in ExpectedFields(m, data) : ~(f.t = "string" /\ ~IsBlank(f.v))

\* a claude body whose content array starts with null
ClaudeNullPart(m, data) ==
    /\ m = "claude"
    /\ OptGet(data, "content").t = "array"
    /\ Len(OptGet(data, "content").v) > 0
    /\ OptGet(data, "content").v[1] = Null

\* the provider's primary extraction field
PrimaryField(m, data) ==
    IF m = "claude" THEN ClaudeContentText(data) ELSE ChoiceMessageContent(data)

\* C1: for every provider identifier outside the supported set and every
\* transcript, callAI returns "Unknown model" and issues no HTTP request.
C1_UnknownModel ==
    (Returned /\ call.model \notin Supported) =>
        /\ call.result = Str(UnknownModel)
        /\ call.requests = <<>>

C1_Witness ==
    /\ Returned
    /\ call.model = "llama"
    /\ Len(call.messages) = 2
    /\ call.result = Str(UnknownModel)

C4_Original ==
    (/\ Returned
     /\ call.model \in Supported
     /\ call.outcome.k = "json"
     /\ PrimaryField(call.model, call.outcome.data).t = "string")
        => call.result = PrimaryField(call.model, call.outcome.data)

\* C4, amended: for every well-formed response whose primary extraction field
\* holds text that is not blank, callAI returns that text with its leading and
\* trailing whitespace removed.
C4_TrimmedText ==
    (/\ Returned
     /\ call.model \in Supported
     /\ call.outcome.k = "json"
     /\ PrimaryField(call.model, call.outcome.data).t = "string"
     /\ ~IsBlank(PrimaryField(call.model, call.outcome.data).v))
        => /\ call.result.t = "string"
           /\ IsTrimOf(call.result.v, PrimaryField(call.model, call.outcome.data).v)

C4_Witness ==
    /\ Returned
    /\ call.model = "claude"
    /\ call.outcome.k = "json"
    /\ PrimaryField(call.model, call.outcome.data) = Str(<<"a", " ">>)
    /\ call.result = Str(<<"a">>)

\* C5, as claimed: every invocation of callAI performs exactly one request.
C5_Original == Returned => Len(call.requests) = 1

\* C5, amended: every invocation of callAI with a supported provider performs
\* exactly one request, whatever comes of it, and an invocation with any other
\* identifier performs none.
C5_OneRequest ==
    Returned => Len(call.requests) = IF call.model \in Supported THEN 1 ELSE 0

C5_Witness ==
    /\ Returned
    /\ call.model = "deepseek"
    /\ call.outcome.k = "reject"
    /\ Len(call.requests) = 1

\* C6: for every supported provider and every transcript, the messages of the
\* request have the length and order of the transcript, and each carries the
\* role and content of the transcript's message unchanged.
C6_MessagesVerbatim ==
    (Returned /\ call.model \in Supported) =>
        /\ Len(call.requests) = 1
        /\ Len(call.requests[1].messages) = Len(call.messages)
        /\ \A i \in 1 .. Len(call.messages) :
               /\ DOMAIN call.requests[1].messages[i] = {"role", "content"}
               /\ call.requests[1].messages[i].role = call.messages[i].role
               /\ call.requests[1].messages[i].content = call.messages[i].content

C6_Witness ==
    /\ Returned
    /\ call.model = "claude"
    /\ Len(call.messages) = 2
    /\ call.messages[1] = [role |-> "user", content |-> <<" ", "a">>]
    /\ call.messages[2] = [role |-> "assistant", content |-> <<"a">>]
    /\ call.requests[1].messages = call.messages

\* the field holds text that is not blank
HasText(f) == f.t = "string" /\ ~IsBlank(f.v)

\* the field is absent, null or a blank string
NoText(f) == f \in {Undef, Null} \/ (f.t = "string" /\ IsBlank(f.v))

\* the field is absent, null, the empty string or 0
Falsy(f) == f \in {Undef, Null, Str(<<>>), Num(0)}

\* the field is a string that is not empty
NonEmptyText(f) == f.t = "string" /\ f.v # <<>>

\* r is the text of field f, trimmed
TextOf(r, f) ==
    /\ r.t = "string"
    /\ f.t = "string"
    /\ IsTrimOf(r.v, f.v) \/ (IsBlank(f.v) /\ r.v = <<>>)

\* the field is not there: absent or null
Absent(f) == f \in {Undef, Null}

----------------------------------------------------------------------------
(* The chat session, under Spec *)

Last(q) == q[Len(q)]

\* what the network may make of a request in a chat session
ChatOutcomes ==
    {[k |-> "reject"], [k |-> "badjson"]}
        \cup {[k |-> "json", data |-> d] : d \in ChatBodies}

\* the replies the provider behind url can give rise to
RepliesFrom(url) ==
    {CallAI(m, <<>>, o).v : m \in {p \in Supported : Endpoint(p) = url},
                            o \in ChatOutcomes}

Settles == FetchRejects \/ JsonRejects \/ ResponseArrives

\* the user message and the reply of turn t, next to each other in msgs
ContainsTurn(msgs, t) ==
    \E i \in 1 .. Len(msgs) - 1 :
        /\ msgs[i] = Last(t.sent)
        /\ msgs[i + 1] = Last(t.data.messages)

\* C2: when the fetch of a supported provider rejects, callAI returns
\* "Error calling AI" and raises nothing: sendMessage goes on, appends the
\* assistant message with that text and issues its write.
C2_ErrorReply ==
    [][FetchRejects =>
          \E t \in turns :
              /\ t.pc = "callAI"
              /\ t.model \in Supported
              /\ messages' = Append(t.sent, [role |-> "assistant",
                                             content |-> ErrorCallingAI])
              /\ \E u \in turns' : u.id = t.id /\ u.pc = "write"]_vars

C2_Witness ==
    /\ model = "claude"
    /\ Len(messages) = 2
    /\ messages[2] = [role |-> "assistant", content |-> ErrorCallingAI]
    /\ \E t \in turns : t.pc = "write" /\ t.model = "claude" /\ t.data.messages = messages

\* C7: changing the selected provider leaves the transcript and every pending
\* turn as they are; a pending call completes by the rule of the provider its
\* request was sent to and is stored under that provider; a send uses the
\* provider selected when it starts.
C7_ProviderSwitch ==
    /\ [][SelectModel => (messages' = messages /\ turns' = turns /\ store' = store)]_vars
    /\ [][Settles =>
             \E t \in turns :
                 /\ t.pc = "callAI"
                 /\ Len(t.requests) = 1
                 /\ \E u \in turns' :
                        /\ u.id = t.id
                        /\ u.pc = "write"
                        /\ Endpoint(u.data.model) = t.requests[1].url
                        /\ Last(u.data.messages).content
                               \in RepliesFrom(t.requests[1].url)]_vars
    /\ [][(SendMessage /\ sends' # sends) =>
             \E t \in turns' \ turns :
                 /\ t.model = model
                 /\ t.requests = <<Request(model, messages')>>]_vars

\* a call sent to chatgpt has completed while claude is selected, in a session
\* that has neither loaded nor stored a conversation
C7_Witness ==
    /\ model = "claude"
    /\ store = <<>>
    /\ \E t \in turns :
           /\ t.pc = "write"
           /\ t.model = "chatgpt"
           /\ t.data.messages = messages
           /\ Last(messages).content = <<"a">>

\* C8: loadConversation on a record of the history snapshot sets the in-memory
\* transcript to the transcript that was in memory when that record was
\* written, and every stored record holds that transcript.
C8_RoundTrip ==
    /\ [][loadConversation =>
             \E i \in 1 .. Len(conversations) :
                 /\ activeConversationId' = conversations[i].id
                 /\ messages' = conversations[i].saved]_vars
    /\ [](\A i \in 1 .. Len(store) :
              /\ store[i].messages = store[i].saved
              /\ Len(store[i].saved) >= 2)

\* the first of two stored conversations has been loaded again
C8_Witness ==
    /\ Len(store) = 2
    /\ Len(conversations) = 2
    /\ turns = {}
    /\ activeConversationId = 1
    /\ messages = store[1].saved
    /\ messages # store[2].saved

\* C9: a turn that is not the first of its conversation merges into the
\* conversation's document: it never creates a document of its own.
C9_LaterTurnsMerge ==
    \A t \in turns : (t.pc = "write" /\ Len(t.sent) > 1) => t.write = "setDoc"

\* C10, as claimed: when the write of a turn fails, the transcript contains the
\* turn's user message and reply, no error state is set and loading is false.
C10_Original ==
    [][WriteFails =>
          \E t \in turns \ turns' :
              /\ ContainsTurn(messages', t)
              /\ ~historyError'
              /\ ~loading']_vars

\* C10, amended: the write is issued with the turn's user message and reply in
\* the transcript and loading false; its failure is caught and changes nothing
\* but the end of that sendMessage: transcript, loading flag, error state,
\* active conversation and store stay as they were, and no error state is set.
C10_SilentDrop ==
    /\ [][Settles =>
             \A u \in turns' \ turns :
                 /\ u.pc = "write"
                 /\ messages' = u.data.messages
                 /\ ContainsTurn(messages', u)
                 /\ ~loading']_vars
    /\ [][WriteFails =>
             /\ messages' = messages
             /\ loading' = loading
             /\ historyError' = historyError
             /\ ~historyError'
             /\ activeConversationId' = activeConversationId
             /\ store' = store
             /\ \E t \in turns : t.pc = "write" /\ turns' = turns \ {t}]_vars

\* the write of the only turn has failed: nothing is stored, the turn is on
\* screen, and a next send is possible
C10_Witness ==
    /\ sends = 1
    /\ turns = {}
    /\ store = <<>>
    /\ Len(messages) = 2
    /\ ~loading
    /\ ENABLED SendMessage

\* p is an initial part of q
IsPrefix(p, q) == Len(p) <= Len(q) /\ SubSeq(q, 1, Len(p)) = p

\* the turn whose provider call is pending
Calling(t) == t \in turns /\ t.pc = "callAI"

\* C11: apart from loadConversation and startNewConversation, every step keeps
\* the previous transcript as a prefix of the transcript; an accepted send
\* appends the user message in the step that issues the provider call, and the
\* assistant message is appended only by the step in which that call settles.
C11_AppendOnly ==
    /\ [][(~loadConversation /\ ~startNewConversation)
             => IsPrefix(messages, messages')]_vars
    /\ [][(SendMessage /\ sends' # sends) =>
             /\ Len(messages') = Len(messages) + 1
             /\ Last(messages').role = "user"
             /\ \E t \in turns' \ turns : t.pc = "callAI" /\ t.sent = messages']_vars
    /\ [][(Len(messages') > Len(messages) /\ Last(messages').role = "assistant"
             /\ ~loadConversation)
             => \E t \in turns : Calling(t) /\ t \notin turns']_vars

\* C12: at most one turn is in progress at any time, a turn being in progress
\* from its send until its persistence write has settled.
C12_OneTurnInProgress == Cardinality(turns) <= 1

\* C13: every message of every transcript passed to callAI has role "user" or
\* "assistant" and content that is not empty.
C13_ValidMessages ==
    \A t \in turns :
        \A i \in 1 .. Len(t.sent) :
            /\ t.sent[i].role \in Roles
            /\ t.sent[i].content # <<>>

\* turn t was sent in the conversation now on display: the active conversation
\* is the one it was sent in, or it was sent in a conversation that had no
\* document yet and the active document holds the beginning of its transcript
SentInActive(t) ==
    \/ t.activeConversationId = activeConversationId
    \/ /\ t.activeConversationId = NoId
       /\ activeConversationId # NoId
       /\ IsPrefix(store[activeConversationId].messages, t.sent)

\* C15: when the reply of a turn is put on display, the conversation on display
\* is the one the turn was sent in, and a turn merged into a stored document
\* continues the transcript of that document: no turn of one conversation
\* appears in the displayed transcript or the stored document of another.
C15_TurnsStayInTheirConversation ==
    /\ [][Settles =>
             \E t \in turns : Calling(t) /\ t \notin turns' /\ SentInActive(t)]_vars
    /\ [][WriteSucceeds =>
             \E t \in turns \ turns' :
                 t.write = "setDoc" =>
                     IsPrefix(store[t.activeConversationId].messages,
                              t.data.messages)]_vars

\* user, assistant, user, assistant, ...
Alternates(msgs) ==
    \A i \in 1 .. Len(msgs) :
        msgs[i].role = IF i % 2 = 1 THEN "user" ELSE "assistant"

\* C16: an accepted send appends the user message to the transcript and passes
\* all of it, earlier sentinel replies included, to callAI; when the call
\* settles, whatever it returns, the transcript becomes the sent transcript
\* with one assistant message appended, and that transcript is what is written;
\* whenever no provider call is pending the transcript has even length and
\* alternates user, assistant.
C16_TwoMessagesPerSend ==
    /\ [][(SendMessage /\ sends' # sends) =>
             \E t \in turns' \ turns :
                 /\ t.pc = "callAI"
                 /\ messages' = t.sent
                 /\ Len(t.sent) = Len(messages) + 1
                 /\ IsPrefix(messages, t.sent)
                 /\ Last(t.sent).role = "user"]_vars
    /\ [][Settles =>
             \E t \in turns :
                 /\ Calling(t)
                 /\ Len(messages') = Len(t.sent) + 1
                 /\ IsPrefix(t.sent, messages')
                 /\ Last(messages').role = "assistant"
                 /\ \E u \in turns' :
                        u.id = t.id /\ u.pc = "write" /\ u.data.messages = messages']_vars
    /\ []((\A t \in turns : ~Calling(t)) =>
              (Len(messages) % 2 = 0 /\ Alternates(messages)))

\* a "No response" reply has been stored and is part of the transcript sent
\* with the next turn
C16_Witness ==
    /\ Len(store) = 1
    /\ store[1].messages[2] = [role |-> "assistant", content |-> NoResponse]
    /\ \E t \in turns :
           /\ Calling(t)
           /\ Len(t.sent) = 3
           /\ t.sent[2] = [role |-> "assistant", content |-> NoResponse]
           /\ t.sent = messages

\* the chat session in which every pending provider call settles in the end:
\* its fetch rejects, or its body fails to parse, or a JSON body arrives
SpecSettling == Init /\ [][Next]_vars /\ WF_vars(Settles)

\* C17: loading is true exactly while a provider call is pending; the step in
\* which the call settles clears it, with the turn's write still to come, and
\* the settling of a write leaves it alone; when every pending call settles,
\* loading always becomes false again.
C17_LoadingFollowsCall ==
    /\ [](loading <=> \E t \in turns : Calling(t))
    /\ [][Settles =>
             /\ loading
             /\ ~loading'
             /\ \E u \in turns' \ turns : u.pc = "write"]_vars
    /\ [][(WriteSucceeds \/ WriteFails) => loading' = loading]_vars
    /\ (loading ~> ~loading)

\* the first call has settled and its write is pending: loading is false and a
\* send is possible
C17_Witness ==
    /\ ~loading
    /\ sends = 1
    /\ \E t \in turns : t.pc = "write" /\ t.id = 1
    /\ ENABLED SendMessage

====
